---- MODULE Spec2Model ----
(***************************************************************************)
(* ruresol: bulk DNS lookup.  Model of src/main.rs: the line source that   *)
(* filters stdin, the per-item lookup process_entry, and the bounded       *)
(* buffered / buffer_unordered pipeline that prints one line per item.     *)
(***************************************************************************)
EXTENDS Integers, Sequences, FiniteSets, TLC

(* ------------------------------ bounds ------------------------------- *)
MaxLines == 2          \* lines on stdin in the pipeline specification
MaxConcurrency == 2    \* largest value of --concurrency explored
MaxRecords == 2        \* largest number of records in one lookup answer
MaxLineLen == 2        \* bytes per line in the line-source specification
MaxSourceLines == 2    \* lines on stdin in the line-source specification

(* ----------------------------- alphabet ------------------------------ *)
\* Bytes a line is made of.  "a" is a letter that is also a hex digit, so
\* that "a" is a host name and "::a" an IPv6 literal; BadByte is a byte
\* that is not valid UTF-8 (such as 0xFF).
BadByte == "<FF>"
Bytes == {" ", "#", ":", "a", BadByte}
IoError == <<"<io error>">>

RECURSIVE SeqsOfLen(_, _)
SeqsOfLen(S, n) ==
    IF n = 0 THEN {<<>>}
    ELSE {Append(s, x) : s \in SeqsOfLen(S, n - 1), x \in S}

SeqsUpTo(S, n) == UNION {SeqsOfLen(S, k) : k \in 0..n}

(* --------------------------- line source ----------------------------- *)
\* std::str::from_utf8(&buf)
from_utf8_ok(buf) == \A i \in 1..Len(buf) : buf[i] # BadByte

is_whitespace(c) == c \in {" ", "\n"}

RECURSIVE trim_start(_)
trim_start(s) ==
    IF s # <<>> /\ is_whitespace(Head(s)) THEN trim_start(Tail(s)) ELSE s

RECURSIVE trim_end(_)
trim_end(s) ==
    IF s # <<>> /\ is_whitespace(s[Len(s)])
    THEN trim_end(SubSeq(s, 1, Len(s) - 1))
    ELSE s

\* Faulty variant: only leading whitespace is removed.
trim_leading_only(s) == trim_start(s)

\* str::trim
trim(s) == trim_end(trim_start(s))

starts_with_hash(s) == s # <<>> /\ Head(s) = "#"

\* The buffer read_until fills for one line of stdin: the line's bytes and
\* the delimiter.
read_until(line) == line \o <<"\n">>

\* One iteration of the loop of input_stream on a line that was read:
\* <<item>> when the line is yielded, <<>> when it is skipped.
input_stream_step(line) ==
    LET buf == read_until(line) IN
    IF from_utf8_ok(buf)
    THEN LET trimmed == trim(buf) IN
         IF ~starts_with_hash(trimmed) /\ trimmed # <<>>
         THEN <<trimmed>>
         ELSE <<>>
    ELSE <<>>

(* ------------------------ address parsing ---------------------------- *)
is_hex_digit(c) == c = "a"

\* The fields of s between colons: split("::a") = << <<>>, <<>>, <<"a">> >>.
RECURSIVE split_colon(_, _, _)
split_colon(s, cur, acc) ==
    IF s = <<>> THEN Append(acc, cur)
    ELSE IF Head(s) = ":" THEN split_colon(Tail(s), <<>>, Append(acc, cur))
    ELSE split_colon(Tail(s), Append(cur, Head(s)), acc)

is_group(f) ==
    /\ Len(f) \in 1..4
    /\ \A i \in 1..Len(f) : is_hex_digit(f[i])

\* input.parse::<IpAddr>() on the alphabet above: no '.' and no decimal
\* digit, so only IPv6 literals parse.  Eight groups, or fewer groups and
\* exactly one "::" standing for at least one group.
parse_IpAddr_ok(s) ==
    LET f == split_colon(s, <<>>, <<>>)
        n == Len(f)
        empties == {i \in 1..n : f[i] = <<>>}
        groups == {i \in 1..n : f[i] # <<>>}
    IN  /\ \A i \in groups : is_group(f[i])
        /\ \/ empties = {} /\ n = 8
           \/ /\ n >= 3
              /\ Cardinality(groups) <= 7
              /\ \/ \E i \in 2..(n - 1) : empties = {i}
                 \/ empties = {1, 2}
                 \/ empties = {n - 1, n}
                 \/ n = 3 /\ empties = {1, 2, 3}

(* --------------------------- resolver -------------------------------- *)
\* ResolveErrorKind, with the ResponseCode of NoRecordsFound.
NoCode == "-"
ErrorKinds ==
    {[kind |-> "NoRecordsFound", response_code |-> rc] :
        rc \in {"NXDomain", "NoError", "ServFail", "Refused"}}
    \cup {[kind |-> "Timeout", response_code |-> NoCode],
          [kind |-> "Io", response_code |-> NoCode]}

NoError == [kind |-> "-", response_code |-> NoCode]

\* What one lookup returns: Ok(lookup) with the lookup's records, which
\* are numbered 1..n in the order the lookup iterates them, or Err(e).
Lookups ==
    {[ok |-> TRUE, records |-> n, err |-> NoError] : n \in 0..MaxRecords}
    \cup {[ok |-> FALSE, records |-> 0, err |-> e] : e \in ErrorKinds}

\* ip.to_string() / the Display of a PTR name, for the k-th record.
to_string(family, k) ==
    IF family = "A"
    THEN <<"192.0.2.1", "192.0.2.2", "192.0.2.3", "192.0.2.4">>[k]
    ELSE IF family = "AAAA"
    THEN <<"2001:db8::1", "2001:db8::2", "2001:db8::3", "2001:db8::4">>[k]
    ELSE <<"h1.example.", "h2.example.", "h3.example.", "h4.example.">>[k]

\* The strings of the records of a lookup, in iteration order.
lookup_strings(family, n) == [k \in 1..n |-> to_string(family, k)]

(* --------------------------- formatting ------------------------------ *)
RECURSIVE join(_, _)
join(strs, sep) ==
    IF strs = <<>> THEN <<>>
    ELSE IF Len(strs) = 1 THEN <<strs[1]>>
    ELSE <<strs[1], sep>> \o join(Tail(strs), sep)

\* format!("{}={}", input, value) and format!("{}:<message>", input)
format_eq(input, value) == input \o <<"=">> \o value
format_msg(input, message) == input \o <<":">> \o <<message>>

(* -------------------------- process_entry ---------------------------- *)
\* Faulty variant: every host name of the lookup is printed.
reverse_output_all(input, lookup) ==
    IF lookup.ok
    THEN IF lookup.records >= 1
         THEN format_eq(input, join(lookup_strings("PTR", lookup.records), ","))
         ELSE format_msg(input, "No records found")
    ELSE IF lookup.err.kind = "NoRecordsFound"
         THEN IF lookup.err.response_code = "NXDomain"
              THEN format_msg(input, "NXDOMAIN")
              ELSE IF lookup.err.response_code = "ServFail"
              THEN format_msg(input, "Temporary error")
              ELSE format_msg(input, "No records found")
         ELSE format_msg(input, "Temporary error")

\* Faulty variant: an empty reverse lookup gets a message of its own.
reverse_output_ptr_wording(input, lookup) ==
    IF lookup.ok
    THEN IF lookup.records >= 1
         THEN format_eq(input, <<to_string("PTR", 1)>>)
         ELSE format_msg(input, "No PTR records found")
    ELSE IF lookup.err.kind = "NoRecordsFound"
         THEN IF lookup.err.response_code = "NXDomain"
              THEN format_msg(input, "NXDOMAIN")
              ELSE IF lookup.err.response_code = "ServFail"
              THEN format_msg(input, "Temporary error")
              ELSE format_msg(input, "No records found")
         ELSE format_msg(input, "Temporary error")

\* The Ok and Err arms of the match on resolver.reverse_lookup(ip).await.
reverse_output(input, lookup) ==
    IF lookup.ok
    THEN IF lookup.records >= 1
         THEN format_eq(input, <<to_string("PTR", 1)>>)
         ELSE format_msg(input, "No records found")
    ELSE IF lookup.err.kind = "NoRecordsFound"
         THEN IF lookup.err.response_code = "NXDomain"
              THEN format_msg(input, "NXDOMAIN")
              ELSE IF lookup.err.response_code = "ServFail"
              THEN format_msg(input, "Temporary error")
              ELSE format_msg(input, "No records found")
         ELSE format_msg(input, "Temporary error")

\* Faulty variant: the strings of a lookup are put in front of results.
push_results_in_front(results, family, lookup) ==
    IF lookup.ok THEN lookup_strings(family, lookup.records) \o results
    ELSE results

\* The match on one forward lookup: its strings are pushed to results,
\* its error is pushed to errors.
push_results(results, family, lookup) ==
    IF lookup.ok THEN results \o lookup_strings(family, lookup.records)
    ELSE results

push_errors(errors, lookup) ==
    IF lookup.ok THEN errors ELSE Append(errors, lookup.err)

\* Faulty variant: only the first error is looked at.
has_nxdomain_first(errors) ==
    /\ errors # <<>>
    /\ errors[1].kind = "NoRecordsFound"
    /\ errors[1].response_code = "NXDomain"

has_nxdomain(errors) ==
    \E i \in 1..Len(errors) :
        /\ errors[i].kind = "NoRecordsFound"
        /\ errors[i].response_code = "NXDomain"

has_temp_error(errors) ==
    \E i \in 1..Len(errors) :
        \/ /\ errors[i].kind = "NoRecordsFound"
           /\ errors[i].response_code \notin {"NXDomain", "NoError"}
        \/ errors[i].kind # "NoRecordsFound"

\* Faulty variant: the NODATA message never names the family.
forward_output_generic(input, results, errors, do_ipv4, do_ipv6) ==
    IF results # <<>> THEN format_eq(input, join(results, ","))
    ELSE IF errors = <<>> THEN format_msg(input, "No records found")
    ELSE IF has_nxdomain(errors) THEN format_msg(input, "NXDOMAIN")
    ELSE IF has_temp_error(errors) THEN format_msg(input, "Temporary error")
    ELSE format_msg(input, "No records found")

\* Faulty variant: an empty success is printed as a success line.
forward_output_empty_eq(input, results, errors, do_ipv4, do_ipv6) ==
    IF results # <<>> THEN format_eq(input, join(results, ","))
    ELSE IF errors = <<>> THEN format_eq(input, <<>>)
    ELSE IF has_nxdomain(errors) THEN format_msg(input, "NXDOMAIN")
    ELSE IF has_temp_error(errors) THEN format_msg(input, "Temporary error")
    ELSE IF do_ipv4 /\ ~do_ipv6 THEN format_msg(input, "No A records found")
    ELSE IF do_ipv6 /\ ~do_ipv4 THEN format_msg(input, "No AAAA records found")
    ELSE format_msg(input, "No records found")

\* The tail of the forward branch, after both lookups.
forward_output(input, results, errors, do_ipv4, do_ipv6) ==
    IF results # <<>> THEN format_eq(input, join(results, ","))
    ELSE IF errors = <<>> THEN format_msg(input, "No records found")
    ELSE IF has_nxdomain(errors) THEN format_msg(input, "NXDOMAIN")
    ELSE IF has_temp_error(errors) THEN format_msg(input, "Temporary error")
    ELSE IF do_ipv4 /\ ~do_ipv6 THEN format_msg(input, "No A records found")
    ELSE IF do_ipv6 /\ ~do_ipv4 THEN format_msg(input, "No AAAA records found")
    ELSE format_msg(input, "No records found")

(* ------------------------------ state -------------------------------- *)
VARIABLES
    args,               \* Args::parse()
    stdin,              \* lines not yet read; ends with IoError if a read fails
    consumed,           \* lines read so far (history)
    stream_done,        \* input_stream has ended
    items,              \* strings input_stream has yielded, in order
    tasks,              \* tasks[i]: the process_entry future of items[i]
    calls,              \* calls[i]: families of the lookups items[i] started
    in_progress_queue,  \* futures held by buffered / buffer_unordered
    stdout,             \* lines printed
    emitted,            \* emitted[k]: index of the item of stdout[k]
    main_pc,            \* "for_each" while main awaits the stream
    answers             \* answers[i]: what the lookups of items[i] returned
                        \* (history, recorded only under NextH)

vars == <<args, stdin, consumed, stream_done, items, tasks, calls,
          in_progress_queue, stdout, emitted, main_pc, answers>>

do_reverse == args.reverse
do_ipv4 == args.ipv4 \/ (args.address /\ ~args.ipv4 /\ ~args.ipv6)
do_ipv6 == args.ipv6

\* clap: --concurrency is any usize; exactly one of --reverse, --address.
ArgsSet ==
    {a \in [reverse : BOOLEAN, address : BOOLEAN, ipv4 : BOOLEAN,
            ipv6 : BOOLEAN, concurrency : 0..MaxConcurrency,
            unordered : BOOLEAN] : a.reverse # a.address}

Task(pc, results, errors, output) ==
    [pc |-> pc, results |-> results, errors |-> errors, output |-> output]

Dropped == Task("dropped", <<>>, <<>>, <<>>)

\* Faulty variant: reverse mode looks up whatever the item is.
first_poll_unparsed(input) ==
    IF do_reverse THEN Task("reverse_lookup", <<>>, <<>>, <<>>)
    ELSE IF do_ipv4 THEN Task("ipv4_lookup", <<>>, <<>>, <<>>)
    ELSE Task("ipv6_lookup", <<>>, <<>>, <<>>)

\* process_entry up to its first await.
first_poll(input) ==
    IF do_reverse
    THEN IF parse_IpAddr_ok(input)
         THEN Task("reverse_lookup", <<>>, <<>>, <<>>)
         ELSE Task("ready", <<>>, <<>>,
                   format_msg(input, "Invalid IP address format"))
    ELSE IF do_ipv4 THEN Task("ipv4_lookup", <<>>, <<>>, <<>>)
    ELSE IF do_ipv6 THEN Task("ipv6_lookup", <<>>, <<>>, <<>>)
    ELSE Task("ready", <<>>, <<>>,
              forward_output(input, <<>>, <<>>, do_ipv4, do_ipv6))

first_calls(input) ==
    IF do_reverse
    THEN IF parse_IpAddr_ok(input) THEN <<"PTR">> ELSE <<>>
    ELSE IF do_ipv4 THEN <<"A">>
    ELSE IF do_ipv6 THEN <<"AAAA">>
    ELSE <<>>

\* Stdin of the pipeline specification: lines that are yielded with and
\* without trimming, an address literal, a comment, a blank line and a
\* line that is not UTF-8.
SampleLines ==
    {<<"a", " ">>, <<":", ":">>, <<"#", "a">>, <<" ">>, <<BadByte>>}

Inputs(lines, n) ==
    {ls \o t : ls \in SeqsUpTo(lines, n), t \in {<<>>, <<IoError>>}}

InitWith(inputs) ==
    /\ args \in ArgsSet
    /\ stdin \in inputs
    /\ consumed = <<>>
    /\ stream_done = FALSE
    /\ items = <<>>
    /\ tasks = <<>>
    /\ calls = <<>>
    /\ in_progress_queue = <<>>
    /\ stdout = <<>>
    /\ emitted = <<>>
    /\ main_pc = "for_each"
    /\ answers = <<>>

Init == InitWith(Inputs(SampleLines, MaxLines))

(* ----------------------------- actions ------------------------------- *)
\* Faulty variant: the stream is polled however many futures are held.
stream_polled_unbounded ==
    /\ main_pc = "for_each"
    /\ ~stream_done

\* Faulty variant: the last admission slot is never used.
stream_polled_one_short ==
    /\ main_pc = "for_each"
    /\ ~stream_done
    /\ Len(in_progress_queue) + 1 < args.concurrency

\* Faulty variant: the admission test is off by one.
stream_polled_off_by_one ==
    /\ main_pc = "for_each"
    /\ ~stream_done
    /\ Len(in_progress_queue) <= args.concurrency

\* buffered / buffer_unordered poll the stream only while they hold fewer
\* than `concurrency` futures.
stream_polled ==
    /\ main_pc = "for_each"
    /\ ~stream_done
    /\ Len(in_progress_queue) < args.concurrency

\* read_until returns a line that input_stream yields: the map closure
\* makes its future, which is pushed to the queue and polled.
ReadYield ==
    /\ stream_polled
    /\ stdin # <<>> /\ Head(stdin) # IoError
    /\ input_stream_step(Head(stdin)) # <<>>
    /\ LET input == input_stream_step(Head(stdin))[1] IN
         /\ items' = Append(items, input)
         /\ tasks' = Append(tasks, first_poll(input))
         /\ calls' = Append(calls, first_calls(input))
         /\ in_progress_queue' = Append(in_progress_queue, Len(items) + 1)
    /\ consumed' = Append(consumed, Head(stdin))
    /\ stdin' = Tail(stdin)
    /\ UNCHANGED <<args, stream_done, stdout, emitted, main_pc>>

\* read_until returns a line that input_stream skips.
ReadSkip ==
    /\ stream_polled
    /\ stdin # <<>> /\ Head(stdin) # IoError
    /\ input_stream_step(Head(stdin)) = <<>>
    /\ consumed' = Append(consumed, Head(stdin))
    /\ stdin' = Tail(stdin)
    /\ UNCHANGED <<args, stream_done, items, tasks, calls,
                   in_progress_queue, stdout, emitted, main_pc>>

\* read_until returns Ok(0).
ReadEof ==
    /\ stream_polled
    /\ stdin = <<>>
    /\ stream_done' = TRUE
    /\ UNCHANGED <<args, stdin, consumed, items, tasks, calls,
                   in_progress_queue, stdout, emitted, main_pc>>

\* Faulty variant: a failed read is passed over like a skipped line.
ReadErr_skips ==
    /\ stream_polled
    /\ stdin # <<>> /\ Head(stdin) = IoError
    /\ stdin' = Tail(stdin)
    /\ UNCHANGED <<args, consumed, stream_done, items, tasks, calls,
                   in_progress_queue, stdout, emitted, main_pc>>

\* read_until returns Err: the while-let loop ends.
ReadErr ==
    /\ stream_polled
    /\ stdin # <<>> /\ Head(stdin) = IoError
    /\ stream_done' = TRUE
    /\ stdin' = Tail(stdin)
    /\ UNCHANGED <<args, consumed, items, tasks, calls,
                   in_progress_queue, stdout, emitted, main_pc>>

\* resolver.reverse_lookup(ip).await returns.
ReverseLookupReturns(i, lookup) ==
    /\ tasks[i].pc = "reverse_lookup"
    /\ tasks' = [tasks EXCEPT ![i] =
           Task("ready", <<>>, <<>>, reverse_output(items[i], lookup))]
    /\ UNCHANGED <<args, stdin, consumed, stream_done, items, calls,
                   in_progress_queue, stdout, emitted, main_pc>>

\* Faulty variant: a name that does not exist for A is not asked for AAAA.
Ipv4LookupReturns_short_circuit(i, lookup) ==
    /\ tasks[i].pc = "ipv4_lookup"
    /\ LET results == push_results(tasks[i].results, "A", lookup)
           errors == push_errors(tasks[i].errors, lookup)
       IN  IF do_ipv6 /\ ~has_nxdomain(errors)
           THEN /\ tasks' = [tasks EXCEPT ![i] =
                       Task("ipv6_lookup", results, errors, <<>>)]
                /\ calls' = [calls EXCEPT ![i] = Append(@, "AAAA")]
           ELSE /\ tasks' = [tasks EXCEPT ![i] =
                       Task("ready", <<>>, <<>>,
                            forward_output(items[i], results, errors,
                                           do_ipv4, do_ipv6))]
                /\ calls' = calls
    /\ UNCHANGED <<args, stdin, consumed, stream_done, items,
                   in_progress_queue, stdout, emitted, main_pc>>

\* resolver.ipv4_lookup(&input).await returns; with do_ipv6 the task goes
\* on to call ipv6_lookup, otherwise it finishes.
Ipv4LookupReturns(i, lookup) ==
    /\ tasks[i].pc = "ipv4_lookup"
    /\ LET results == push_results(tasks[i].results, "A", lookup)
           errors == push_errors(tasks[i].errors, lookup)
       IN  IF do_ipv6
           THEN /\ tasks' = [tasks EXCEPT ![i] =
                       Task("ipv6_lookup", results, errors, <<>>)]
                /\ calls' = [calls EXCEPT ![i] = Append(@, "AAAA")]
           ELSE /\ tasks' = [tasks EXCEPT ![i] =
                       Task("ready", <<>>, <<>>,
                            forward_output(items[i], results, errors,
                                           do_ipv4, do_ipv6))]
                /\ calls' = calls
    /\ UNCHANGED <<args, stdin, consumed, stream_done, items,
                   in_progress_queue, stdout, emitted, main_pc>>

\* resolver.ipv6_lookup(&input).await returns and the task finishes.
Ipv6LookupReturns(i, lookup) ==
    /\ tasks[i].pc = "ipv6_lookup"
    /\ LET results == push_results(tasks[i].results, "AAAA", lookup)
           errors == push_errors(tasks[i].errors, lookup)
       IN  tasks' = [tasks EXCEPT ![i] =
               Task("ready", <<>>, <<>>,
                    forward_output(items[i], results, errors,
                                   do_ipv4, do_ipv6))]
    /\ UNCHANGED <<args, stdin, consumed, stream_done, items, calls,
                   in_progress_queue, stdout, emitted, main_pc>>

\* Faulty variant: buffered returns the output of the newest future.
buffered_next_newest(q) ==
    {k \in 1..Len(q) : k = Len(q) /\ tasks[q[k]].pc = "ready"}

\* Faulty variant: buffer_unordered waits for the oldest future like buffered.
buffer_unordered_next_oldest(q) ==
    {k \in 1..Len(q) : k = 1 /\ tasks[q[k]].pc = "ready"}

\* Faulty variant: buffered returns any finished output, not the oldest.
buffered_next_any(q) == {k \in 1..Len(q) : tasks[q[k]].pc = "ready"}

\* The position in the queue whose output the combinator returns next.
buffered_next(q) == {k \in 1..Len(q) : k = 1 /\ tasks[q[k]].pc = "ready"}

buffer_unordered_next(q) == {k \in 1..Len(q) : tasks[q[k]].pc = "ready"}

\* Faulty variant: taking an output also forgets the futures queued after it.
remove_at_truncating(q, k) == SubSeq(q, 1, k - 1)

remove_at(q, k) == SubSeq(q, 1, k - 1) \o SubSeq(q, k + 1, Len(q))

\* for_each takes the output at position k of the queue and prints it.
println(k) ==
    LET i == in_progress_queue[k] IN
    /\ stdout' = Append(stdout, tasks[i].output)
    /\ emitted' = Append(emitted, i)
    /\ tasks' = [tasks EXCEPT ![i] = Dropped]
    /\ in_progress_queue' = remove_at(in_progress_queue, k)
    /\ UNCHANGED <<args, stdin, consumed, stream_done, items, calls, main_pc>>

\* tasks.buffered(concurrency).for_each(println)
EmitBuffered ==
    /\ main_pc = "for_each"
    /\ ~args.unordered
    /\ \E k \in buffered_next(in_progress_queue) : println(k)

\* tasks.buffer_unordered(concurrency).for_each(println)
EmitBufferUnordered ==
    /\ main_pc = "for_each"
    /\ args.unordered
    /\ \E k \in buffer_unordered_next(in_progress_queue) : println(k)

\* The combinator returns None: the stream is done and the queue empty.
MainReturns ==
    /\ main_pc = "for_each"
    /\ stream_done
    /\ in_progress_queue = <<>>
    /\ main_pc' = "returned"
    /\ UNCHANGED <<args, stdin, consumed, stream_done, items, tasks, calls,
                   in_progress_queue, stdout, emitted>>

\* The pipeline: every action leaves the history variable alone.
Next ==
    \/ ReadYield /\ UNCHANGED answers
    \/ ReadSkip /\ UNCHANGED answers
    \/ ReadEof /\ UNCHANGED answers
    \/ ReadErr /\ UNCHANGED answers
    \/ \E i \in 1..Len(tasks), lookup \in Lookups :
           ReverseLookupReturns(i, lookup) /\ UNCHANGED answers
    \/ \E i \in 1..Len(tasks), lookup \in Lookups :
           Ipv4LookupReturns(i, lookup) /\ UNCHANGED answers
    \/ \E i \in 1..Len(tasks), lookup \in Lookups :
           Ipv6LookupReturns(i, lookup) /\ UNCHANGED answers
    \/ EmitBuffered /\ UNCHANGED answers
    \/ EmitBufferUnordered /\ UNCHANGED answers
    \/ MainReturns /\ UNCHANGED answers

Spec == Init /\ [][Next]_vars

\* The same pipeline with the history of the resolver's answers: answers[i]
\* gets a slot when items[i] is yielded and one entry per lookup returned.
Record(i, family, lookup) ==
    answers' = [answers EXCEPT ![i] = Append(@, <<family, lookup>>)]

NextH ==
    \/ ReadYield /\ answers' = Append(answers, <<>>)
    \/ ReadSkip /\ UNCHANGED answers
    \/ ReadEof /\ UNCHANGED answers
    \/ ReadErr /\ UNCHANGED answers
    \/ \E i \in 1..Len(tasks), lookup \in Lookups :
           ReverseLookupReturns(i, lookup) /\ Record(i, "PTR", lookup)
    \/ \E i \in 1..Len(tasks), lookup \in Lookups :
           Ipv4LookupReturns(i, lookup) /\ Record(i, "A", lookup)
    \/ \E i \in 1..Len(tasks), lookup \in Lookups :
           Ipv6LookupReturns(i, lookup) /\ Record(i, "AAAA", lookup)
    \/ EmitBuffered /\ UNCHANGED answers
    \/ EmitBufferUnordered /\ UNCHANGED answers
    \/ MainReturns /\ UNCHANGED answers

\* process_entry on the items of a short stdin, with the history.
MaxEntryLines == 1
InitEntry == InitWith(Inputs(SampleLines, MaxEntryLines))
SpecEntry == InitEntry /\ [][NextH]_vars

\* The pipeline against a stub resolver whose answers are on record.
MaxStubLines == 2
InitStub == InitWith(Inputs(SampleLines, MaxStubLines))
SpecStub == InitStub /\ [][NextH]_vars

\* The line source on every stdin of short lines.
InitSource == InitWith(Inputs(SeqsUpTo(Bytes, MaxLineLen), MaxSourceLines))
SpecSource == InitSource /\ [][Next]_vars

(* ===================================================================== *)
(* Properties                                                            *)
(* ===================================================================== *)
Range(f) == {f[x] : x \in DOMAIN f}
SetMin(S) == CHOOSE x \in S : \A y \in S : x <= y
SetMax(S) == CHOOSE x \in S : \A y \in S : x >= y

\* The filter of the line source as the specification words it: a line is
\* valid text, its trimmed form is what lies between its first and its
\* last non-blank byte, and it survives when that is non-empty and does
\* not start with '#'.
ValidText(line) == BadByte \notin Range(line)

TrimmedOf(line) ==
    LET solid == {p \in 1..Len(line) : line[p] \notin {" ", "\n"}} IN
    IF solid = {} THEN <<>> ELSE SubSeq(line, SetMin(solid), SetMax(solid))

Survives(line) ==
    /\ ValidText(line)
    /\ TrimmedOf(line) # <<>>
    /\ TrimmedOf(line)[1] # "#"

RECURSIVE QueryItemsOf(_)
QueryItemsOf(lines) ==
    IF lines = <<>> THEN <<>>
    ELSE IF Survives(Head(lines))
    THEN <<TrimmedOf(Head(lines))>> \o QueryItemsOf(Tail(lines))
    ELSE QueryItemsOf(Tail(lines))

\* line is a result line of input: the input, then '=' or ':', then more.
IsResultLineOf(line, input) ==
    /\ Len(line) > Len(input) + 1
    /\ SubSeq(line, 1, Len(input)) = input
    /\ line[Len(input) + 1] \in {"=", ":"}

LookupPcs == {"reverse_lookup", "ipv4_lookup", "ipv6_lookup"}

\* Lookups started and not yet returned.
Outstanding == {i \in 1..Len(tasks) : tasks[i].pc \in LookupPcs}

\* C1 (total coverage): no item is ever printed twice and every printed
\* line is the result line of the item it is printed for; once main has
\* returned, all of stdin was read, the items are exactly the lines that
\* survive filtering, and each item has exactly one line on stdout.
C1_TotalCoverage ==
    /\ Len(stdout) = Len(emitted)
    /\ \A k \in 1..Len(emitted) :
        /\ emitted[k] \in 1..Len(items)
        /\ IsResultLineOf(stdout[k], items[emitted[k]])
        /\ \A m \in 1..Len(emitted) : emitted[m] = emitted[k] => m = k
    /\ main_pc = "returned" =>
        /\ stdin = <<>>
        /\ Len(items) = Len(QueryItemsOf(consumed))
        /\ Len(stdout) = Len(QueryItemsOf(consumed))
        /\ Range(emitted) = 1..Len(items)

\* Both items of a two-line stdin printed, the second one first, with a
\* failure among them.
C1_Witness ==
    /\ main_pc = "returned"
    /\ Len(stdout) = 2
    /\ emitted = <<2, 1>>
    /\ stdout[2][Len(stdout[2])] = "Temporary error"

\* C2 (order preservation): without --unordered the k-th line printed is
\* the line of the k-th item, in every reachable state.
C2_OrderPreserved ==
    ~args.unordered =>
        \A k \in 1..Len(emitted) :
            /\ emitted[k] = k
            /\ IsResultLineOf(stdout[k], items[k])

\* The second item finished first and is held: nothing is printed while
\* the first item still awaits its lookup.
C2_Witness ==
    /\ ~args.unordered
    /\ Len(tasks) >= 2
    /\ tasks[1].pc \in LookupPcs
    /\ tasks[2].pc = "ready"
    /\ stdout = <<>>

\* C3 (concurrency bound): the number of resolver calls started and not
\* yet returned never exceeds --concurrency, in every mode.
C3_ConcurrencyBound == Cardinality(Outstanding) <= args.concurrency

\* Dual-family mode with as many calls outstanding as the limit allows.
C3_Witness ==
    /\ do_ipv4 /\ do_ipv6 /\ ~do_reverse
    /\ args.concurrency >= 2
    /\ Cardinality(Outstanding) = args.concurrency
    /\ \E i \in Outstanding : tasks[i].pc = "ipv6_lookup"

(* ------------------ what the sub-queries of an item returned ---------- *)
\* The outcomes on record for item i, and for one family of it.
OutcomesOf(i) == {a[2] : a \in Range(answers[i])}
OutcomesOfFamily(i, family) ==
    {a[2] : a \in {b \in Range(answers[i]) : b[1] = family}}

ReturnedValues(l) == l.ok /\ l.records >= 1
ReportedNameDoesNotExist(l) ==
    ~l.ok /\ l.err.kind = "NoRecordsFound" /\ l.err.response_code = "NXDomain"
ReportedNoData(l) ==
    ~l.ok /\ l.err.kind = "NoRecordsFound" /\ l.err.response_code = "NoError"
\* A timeout, a server failure or any other failure.
ReportedTransient(l) ==
    ~l.ok /\ ~ReportedNameDoesNotExist(l) /\ ~ReportedNoData(l)

NoDataMessages ==
    {"No A records found", "No AAAA records found", "No records found"}

\* The values a family's sub-query of item i returned, in the order
\* returned (none if it was not queried or failed).
ValuesOf(i, family) ==
    IF \E l \in OutcomesOfFamily(i, family) : l.ok
    THEN LET l == CHOOSE x \in OutcomesOfFamily(i, family) : x.ok
         IN  [r \in 1..l.records |-> to_string(family, r)]
    ELSE <<>>

\* v1,v2,...,vn
CommaSeparated(values) ==
    [p \in 1..(2 * Len(values) - 1) |->
        IF p % 2 = 1 THEN values[(p + 1) \div 2] ELSE ","]

\* C4 (failure priority, forward modes): when no sub-query of a printed
\* item returned a value, its line is <item>:NXDOMAIN if a sub-query
\* reported that the name does not exist, else <item>:Temporary error if
\* one reported a timeout, server failure or other failure, else
\* <item>: and one of the NODATA messages.
C4_FailurePriority ==
    \A k \in 1..Len(stdout) :
        LET i == emitted[k]
            outs == OutcomesOf(i)
        IN  (~do_reverse /\ ~\E l \in outs : ReturnedValues(l)) =>
              /\ Len(stdout[k]) = Len(items[i]) + 2
              /\ SubSeq(stdout[k], 1, Len(items[i])) = items[i]
              /\ stdout[k][Len(items[i]) + 1] = ":"
              /\ LET message == stdout[k][Len(items[i]) + 2] IN
                   IF \E l \in outs : ReportedNameDoesNotExist(l)
                   THEN message = "NXDOMAIN"
                   ELSE IF \E l \in outs : ReportedTransient(l)
                   THEN message = "Temporary error"
                   ELSE message \in NoDataMessages

\* Dual-family item whose A query reported NODATA and whose AAAA query
\* reported NXDOMAIN, printed.
C4_Witness ==
    /\ do_ipv4 /\ do_ipv6 /\ ~do_reverse
    /\ Len(stdout) >= 1
    /\ \E l \in OutcomesOfFamily(emitted[1], "A") : ReportedNoData(l)
    /\ \E l \in OutcomesOfFamily(emitted[1], "AAAA") : ReportedNameDoesNotExist(l)

\* C5 (success suppression, forward modes): when a sub-query of a printed
\* item returned values, its line is <item>= and the values of the A
\* query then those of the AAAA query, each in the order returned,
\* separated by commas; nothing of a failed sibling shows.
C5_SuccessSuppression ==
    \A k \in 1..Len(stdout) :
        LET i == emitted[k] IN
        (~do_reverse /\ \E l \in OutcomesOf(i) : ReturnedValues(l)) =>
            stdout[k] = items[i] \o <<"=">>
                        \o CommaSeparated(ValuesOf(i, "A") \o ValuesOf(i, "AAAA"))

\* Dual-family item whose A query reported NXDOMAIN and whose AAAA query
\* returned two addresses, printed.
C5_Witness ==
    /\ do_ipv4 /\ do_ipv6 /\ ~do_reverse
    /\ Len(stdout) >= 1
    /\ \E l \in OutcomesOfFamily(emitted[1], "A") : ReportedNameDoesNotExist(l)
    /\ \E l \in OutcomesOfFamily(emitted[1], "AAAA") : l.ok /\ l.records = 2

(* ------------------------------ reverse ------------------------------- *)
\* C6 (reverse mode, invalid address): an item that does not parse as an
\* IP address never starts a resolver call, is finished as soon as it is
\* admitted, and is printed as <item>:Invalid IP address format; when main
\* has returned, it and every later item have been printed.
C6_InvalidAddress ==
    do_reverse =>
        \A i \in 1..Len(items) :
            ~parse_IpAddr_ok(items[i]) =>
                /\ calls[i] = <<>>
                /\ tasks[i].pc \in {"ready", "dropped"}
                /\ \A k \in 1..Len(emitted) :
                       emitted[k] = i =>
                           stdout[k] = items[i] \o <<":", "Invalid IP address format">>
                /\ main_pc = "returned" =>
                       \A j \in i..Len(items) : j \in Range(emitted)

\* An invalid item printed, and the address after it looked up and
\* printed with its host name.
C6_Witness ==
    /\ do_reverse
    /\ main_pc = "returned"
    /\ Len(items) = 2
    /\ ~parse_IpAddr_ok(items[1])
    /\ calls = << <<>>, <<"PTR">> >>
    /\ stdout[1] = items[1] \o <<":", "Invalid IP address format">>
    /\ stdout[2] = items[2] \o <<"=", "h1.example.">>

(* ---------------------------- line source ----------------------------- *)
\* C7 (line source filtering): the items yielded so far are exactly the
\* lines read so far that are valid text and, trimmed, neither empty nor
\* starting with '#', each trimmed, in input order; lines that are not
\* valid text are passed over and reading goes on.
C7_LineSourceFiltering == items = QueryItemsOf(consumed)

\* A line that is not valid text was read, and the line after it was
\* yielded with its blanks removed.
C7_Witness ==
    /\ Len(consumed) = 2
    /\ ~ValidText(consumed[1])
    /\ Len(items) = 1
    /\ Len(items[1]) < Len(consumed[2])

(* ---------------------------- determinism ----------------------------- *)
\* The run's answers define a stub: equal names got equal answers.
StubConsistent ==
    \A i, j \in 1..Len(items) : items[i] = items[j] => answers[i] = answers[j]

\* The stub's answer for (name, family); names it was not asked about do
\* not matter.
StubAnswer(name, family) ==
    LET asked == UNION {OutcomesOfFamily(i, family) :
                           i \in {j \in 1..Len(items) : items[j] = name}}
    IN  IF asked = {} THEN [ok |-> TRUE, records |-> 0, err |-> NoError]
        ELSE CHOOSE l \in asked : TRUE

\* The values the stub returns for a name, family by family.
RECURSIVE ValuesOfStub(_, _)
ValuesOfStub(name, families) ==
    IF families = <<>> THEN <<>>
    ELSE LET l == StubAnswer(name, Head(families)) IN
         (IF l.ok THEN [r \in 1..l.records |-> to_string(Head(families), r)]
          ELSE <<>>) \o ValuesOfStub(name, Tail(families))

\* The line of a name as a function of the configuration and the stub.
StubLine(name) ==
    IF do_reverse
    THEN IF parse_IpAddr_ok(name)
         THEN reverse_output(name, StubAnswer(name, "PTR"))
         ELSE format_msg(name, "Invalid IP address format")
    ELSE LET queried == (IF do_ipv4 THEN <<"A">> ELSE <<>>)
                        \o (IF do_ipv6 THEN <<"AAAA">> ELSE <<>>)
             failed == SelectSeq(queried, LAMBDA f : ~StubAnswer(name, f).ok)
         IN  forward_output(name,
                            ValuesOfStub(name, queried),
                            [e \in 1..Len(failed) |-> StubAnswer(name, failed[e]).err],
                            do_ipv4, do_ipv6)

\* C8 (determinism): in preserve-input-order mode, for answers that come
\* from a stub fixed per (name, family), the output of a finished run is a
\* function of stdin, the configuration and the stub alone: the line of
\* each surviving input line, in input order.
C8_Deterministic ==
    (main_pc = "returned" /\ ~args.unordered /\ StubConsistent) =>
        LET q == QueryItemsOf(consumed) IN
        stdout = [k \in 1..Len(q) |-> StubLine(q[k])]

\* A finished ordered run of two different dual-family items looked up
\* concurrently.
C8_Witness ==
    /\ main_pc = "returned"
    /\ ~args.unordered
    /\ args.concurrency >= 2
    /\ do_ipv4 /\ do_ipv6 /\ ~do_reverse
    /\ StubConsistent
    /\ Len(stdout) = 2
    /\ items[1] # items[2]
    /\ answers[1] # answers[2]

(* ------------------------------ liveness ------------------------------ *)
\* for_each is polled whenever a future completes, so an output that can
\* be taken is taken; nothing is assumed about the resolver.
SpecEmitFair ==
    /\ Init
    /\ [][Next]_vars
    /\ WF_vars(EmitBufferUnordered /\ UNCHANGED answers)
    /\ WF_vars(EmitBuffered /\ UNCHANGED answers)

\* C9 (no head-of-line blocking): with --unordered, an item whose work
\* has finished is eventually printed, whether or not the lookups of the
\* items admitted before it ever return.
C9_NoHeadOfLineBlocking ==
    \A i \in 1..MaxLines :
        (args.unordered /\ i <= Len(tasks) /\ tasks[i].pc = "ready")
            ~> (i <= Len(tasks) /\ tasks[i].pc = "dropped")

\* A later item is printed while an earlier one still awaits the resolver.
C9_Witness ==
    /\ args.unordered
    /\ args.concurrency >= 2
    /\ \E i \in Outstanding : \E k \in 1..Len(emitted) : emitted[k] > i

\* Every read completes, every lookup returns, every output that can be
\* taken is taken.
SpecFair ==
    /\ Init
    /\ [][Next]_vars
    /\ WF_vars(ReadYield /\ UNCHANGED answers)
    /\ WF_vars(ReadSkip /\ UNCHANGED answers)
    /\ WF_vars(ReadEof /\ UNCHANGED answers)
    /\ WF_vars(ReadErr /\ UNCHANGED answers)
    /\ WF_vars(\E i \in 1..Len(tasks), lookup \in Lookups :
                   ReverseLookupReturns(i, lookup) /\ UNCHANGED answers)
    /\ WF_vars(\E i \in 1..Len(tasks), lookup \in Lookups :
                   Ipv4LookupReturns(i, lookup) /\ UNCHANGED answers)
    /\ WF_vars(\E i \in 1..Len(tasks), lookup \in Lookups :
                   Ipv6LookupReturns(i, lookup) /\ UNCHANGED answers)
    /\ WF_vars(EmitBuffered /\ UNCHANGED answers)
    /\ WF_vars(EmitBufferUnordered /\ UNCHANGED answers)
    /\ WF_vars(MainReturns /\ UNCHANGED answers)

\* All of stdin read, every item printed, main returned.
RunComplete ==
    /\ main_pc = "returned"
    /\ stdin = <<>>
    /\ items = QueryItemsOf(consumed)
    /\ Range(emitted) = 1..Len(items)

\* C10 (run to exhaustion): with --concurrency at least 1 and a resolver
\* that answers every call, in either ordering mode the run eventually
\* has printed the line of every item and main has returned, whatever
\* the lookups of the items returned.
C10_RunsToExhaustion == (args.concurrency >= 1) => <>RunComplete

\* A finished run in which the first item failed and the one after it
\* was looked up and printed.
C10_Witness ==
    /\ RunComplete
    /\ Len(stdout) = 2
    /\ emitted = <<1, 2>>
    /\ stdout[1][Len(stdout[1])] = "Temporary error"
    /\ "=" \in Range(stdout[2])

(* ----------------------- dual-family sub-queries ---------------------- *)
\* C11 (concurrent sub-queries): in dual-family mode the AAAA lookup of
\* an item is started without waiting for its A lookup, so while the A
\* lookup is outstanding the AAAA lookup has been started too.
C11_ConcurrentSubQueries ==
    (do_ipv4 /\ do_ipv6 /\ ~do_reverse) =>
        \A i \in 1..Len(tasks) :
            tasks[i].pc = "ipv4_lookup" => "AAAA" \in Range(calls[i])

(* -------------------------- reordering window ------------------------- *)
\* Items taken from the line source and not yet printed.
Window == Len(items) - Len(emitted)

\* C12 (bounded reordering buffer): without --unordered, the items taken
\* from the line source and not yet printed, in flight or finished and
\* held, never number more than --concurrency, and no line is read from
\* stdin while they number that many.
C12_BoundedWindow ==
    [][~args.unordered =>
          /\ Window' <= args.concurrency
          /\ Window >= args.concurrency =>
                 (stdin' = stdin /\ consumed' = consumed)]_vars

\* The window is full, one of its items is finished and held behind an
\* item that still awaits its lookup, and stdin has more to give.
C12_Witness ==
    /\ ~args.unordered
    /\ args.concurrency = 2
    /\ Window = 2
    /\ tasks[1].pc \in LookupPcs
    /\ tasks[2].pc = "ready"
    /\ stdin # <<>>

(* --------------------------- NODATA wording --------------------------- *)
\* C13 (NODATA wording, forward modes): when every sub-query of a printed
\* item reported NODATA, its line is <item>:No A records found if only A
\* was queried (also when neither family flag was given),
\* <item>:No AAAA records found if only AAAA was queried, and
\* <item>:No records found if both were.
C13_NoDataWording ==
    \A k \in 1..Len(stdout) :
        LET i == emitted[k]
            outs == OutcomesOf(i)
            queried == Range(calls[i])
        IN  (~do_reverse /\ outs # {} /\ \A l \in outs : ReportedNoData(l)) =>
              /\ (~args.ipv4 /\ ~args.ipv6) => queried = {"A"}
              /\ stdout[k] = items[i] \o <<":">> \o
                    <<IF queried = {"A"} THEN "No A records found"
                      ELSE IF queried = {"AAAA"} THEN "No AAAA records found"
                      ELSE "No records found">>

\* Address mode without a family flag: the A query reported NODATA and
\* the line names the A records.
C13_Witness ==
    /\ args.address /\ ~args.ipv4 /\ ~args.ipv6
    /\ Len(stdout) >= 1
    /\ \E l \in OutcomesOf(emitted[1]) : ReportedNoData(l)
    /\ stdout[1] = items[emitted[1]] \o <<":", "No A records found">>

(* ------------------------ transient failures -------------------------- *)
\* The message of a failure line: what follows <item>:.
MessageOf(line) == line[Len(line)]

\* C14 (uniform classification of transient failures): in every mode, a
\* failure that is neither name-does-not-exist nor NODATA (a timeout, a
\* server failure, any other failure, a no-records response with another
\* response code) never yields a "No ... records found" line, and yields
\* <item>:Temporary error unless a sub-query of the item returned values
\* or reported that the name does not exist.
C14_TransientIsTemporary ==
    \A k \in 1..Len(stdout) :
        LET i == emitted[k]
            outs == OutcomesOf(i)
        IN  (\E l \in outs : ReportedTransient(l)) =>
              /\ MessageOf(stdout[k]) \notin NoDataMessages
              /\ (~\E l \in outs : ReturnedValues(l) \/ ReportedNameDoesNotExist(l))
                    => stdout[k] = items[i] \o <<":", "Temporary error">>

(* --------------------------- reverse success -------------------------- *)
\* C15 (reverse mode, first wins): when the reverse lookup of a printed
\* item returned host names, its line is <item>= and the first of them;
\* no later host name is on the line.
C15_ReverseFirstWins ==
    \A k \in 1..Len(stdout) :
        LET i == emitted[k] IN
        do_reverse =>
            \A l \in OutcomesOf(i) :
                ReturnedValues(l) =>
                    /\ stdout[k] = items[i] \o <<"=", to_string("PTR", 1)>>
                    /\ \A r \in 2..l.records :
                           to_string("PTR", r) \notin Range(stdout[k])

\* A reverse lookup that returned two host names, printed.
C15_Witness ==
    /\ do_reverse
    /\ Len(stdout) >= 1
    /\ \E l \in OutcomesOf(emitted[1]) : l.ok /\ l.records = 2
    /\ stdout[1] = items[emitted[1]] \o <<"=", "h1.example.">>

(* ------------------------- output vocabulary -------------------------- *)
Vocabulary ==
    {"NXDOMAIN", "Temporary error", "No A records found",
     "No AAAA records found", "No records found", "Invalid IP address format"}

\* Every string a lookup can return.
AllValues ==
    {to_string(f, r) : f \in {"A", "AAAA", "PTR"}, r \in 1..MaxRecords}

\* v1,v2,...,vn with n >= 1
IsValueList(rest) ==
    /\ Len(rest) % 2 = 1
    /\ \A p \in 1..Len(rest) :
           IF p % 2 = 1 THEN rest[p] \in AllValues ELSE rest[p] = ","

\* C16 (stable output vocabulary): every printed line is the trimmed
\* input line as it was read, then either '=' and a comma-separated list
\* of values or ':' and one of the six messages; "Invalid IP address
\* format" is printed only in reverse mode, "No A records found" and
\* "No AAAA records found" only in forward modes.
C16_StableVocabulary ==
    \A k \in 1..Len(stdout) :
        LET input == items[emitted[k]]
            line == stdout[k]
            rest == SubSeq(line, Len(input) + 2, Len(line))
        IN  /\ input \in {TrimmedOf(c) : c \in Range(consumed)}
            /\ Len(line) >= Len(input) + 2
            /\ SubSeq(line, 1, Len(input)) = input
            /\ \/ line[Len(input) + 1] = "=" /\ IsValueList(rest)
               \/ /\ line[Len(input) + 1] = ":"
                  /\ Len(rest) = 1
                  /\ rest[1] \in Vocabulary
                  /\ rest[1] = "Invalid IP address format" => do_reverse
                  /\ rest[1] \in {"No A records found", "No AAAA records found"}
                         => ~do_reverse

\* An input that itself contains ':' printed with a failure message, in
\* forward mode.
C16_Witness ==
    /\ ~do_reverse
    /\ Len(stdout) >= 1
    /\ stdout[1] = <<":", ":", ":", "No AAAA records found">>

(* -------------------------- concurrency limit ------------------------- *)
\* C17 (positive concurrency limit): the concurrency limit is a positive
\* integer in every run that is processing its input; a run with
\* concurrency 0 is never started.
C17_PositiveConcurrency ==
    main_pc = "for_each" => args.concurrency >= 1

(* ---------------------- calls per forward item ------------------------ *)
ForwardDual == args.address /\ args.ipv4 /\ args.ipv6
ForwardV6 == args.address /\ args.ipv6 /\ ~args.ipv4
ForwardV4 == args.address /\ ~args.ipv6

CallsOfMode ==
    IF ForwardDual THEN <<"A", "AAAA">>
    ELSE IF ForwardV6 THEN <<"AAAA">>
    ELSE <<"A">>

IsPrefix(s, t) == Len(s) <= Len(t) /\ s = SubSeq(t, 1, Len(s))

\* C18 (no short-circuit between families): in forward modes an admitted
\* item has started at least one call and never more or other calls than
\* its mode's; once it is printed the calls made for it are exactly the A
\* call and then the AAAA call in dual mode, and exactly one call of the
\* selected family otherwise, whatever the calls returned.
C18_NoShortCircuit ==
    args.address =>
        /\ \A i \in 1..Len(items) :
               calls[i] # <<>> /\ IsPrefix(calls[i], CallsOfMode)
        /\ \A k \in 1..Len(stdout) :
               LET i == emitted[k] IN
               /\ calls[i] = CallsOfMode
               /\ [c \in 1..Len(answers[i]) |-> answers[i][c][1]] = CallsOfMode

\* Dual mode, the A call reported that the name does not exist, and the
\* AAAA call was made all the same.
C18_Witness ==
    /\ ForwardDual
    /\ Len(stdout) >= 1
    /\ \E l \in OutcomesOfFamily(emitted[1], "A") : ReportedNameDoesNotExist(l)
    /\ OutcomesOfFamily(emitted[1], "AAAA") # {}
    /\ calls[emitted[1]] = <<"A", "AAAA">>

(* ---------------------------- empty success --------------------------- *)
\* C19 (empty success is not a success line): when every call made for a
\* printed item returned successfully with zero records, the item's one
\* line is <item>:No records found, in reverse mode and in every forward
\* mode; it is never <item>= with nothing after it.
C19_EmptySuccess ==
    \A k \in 1..Len(stdout) :
        LET i == emitted[k]
            outs == OutcomesOf(i)
        IN  (outs # {} /\ \A l \in outs : l.ok /\ l.records = 0) =>
              /\ stdout[k] = items[i] \o <<":", "No records found">>
              /\ \A k2 \in 1..Len(stdout) : emitted[k2] = i => k2 = k

\* A-only mode, the A call returned zero records.
C19_Witness ==
    /\ ForwardV4 /\ args.ipv4
    /\ Len(stdout) >= 1
    /\ \E l \in OutcomesOfFamily(emitted[1], "A") : l.ok /\ l.records = 0
    /\ stdout[1] = items[emitted[1]] \o <<":", "No records found">>

(* ------------------------------ read error ---------------------------- *)
\* stdin whose read fails with lines before it and lines after it, or does
\* not fail at all.
MaxErrLines == 1
InitErr ==
    InitWith({before \o t \o after :
                 before \in SeqsUpTo(SampleLines, MaxErrLines),
                 after \in SeqsUpTo(SampleLines, MaxErrLines),
                 t \in {<<>>, <<IoError>>}})

SpecErrFair ==
    /\ InitErr
    /\ [][Next]_vars
    /\ WF_vars(ReadYield /\ UNCHANGED answers)
    /\ WF_vars(ReadSkip /\ UNCHANGED answers)
    /\ WF_vars(ReadEof /\ UNCHANGED answers)
    /\ WF_vars(ReadErr /\ UNCHANGED answers)
    /\ WF_vars(\E i \in 1..Len(tasks), lookup \in Lookups :
                   ReverseLookupReturns(i, lookup) /\ UNCHANGED answers)
    /\ WF_vars(\E i \in 1..Len(tasks), lookup \in Lookups :
                   Ipv4LookupReturns(i, lookup) /\ UNCHANGED answers)
    /\ WF_vars(\E i \in 1..Len(tasks), lookup \in Lookups :
                   Ipv6LookupReturns(i, lookup) /\ UNCHANGED answers)
    /\ WF_vars(EmitBuffered /\ UNCHANGED answers)
    /\ WF_vars(EmitBufferUnordered /\ UNCHANGED answers)
    /\ WF_vars(MainReturns /\ UNCHANGED answers)

\* The failed read is the step that takes IoError off stdin.
ReadFails == stdin # <<>> /\ Head(stdin) = IoError /\ stdin' = Tail(stdin)

\* C20 (a read error ends the input like end-of-input): the step on which
\* the read fails ends the line sequence and prints nothing; once the
\* sequence has ended nothing more is read and no item is produced; the
\* failed read is never taken for a line; the run then returns, and when
\* it has, every item produced before the error has been printed exactly
\* once.
C20_ReadErrorEndsInput ==
    /\ [][/\ ReadFails => (stream_done' /\ items' = items /\ stdout' = stdout)
          /\ stream_done =>
                 (stdin' = stdin /\ consumed' = consumed /\ items' = items)]_vars
    /\ [](/\ IoError \notin Range(consumed)
          /\ items = QueryItemsOf(consumed)
          /\ main_pc = "returned" =>
                 /\ stream_done
                 /\ Len(stdout) = Len(items)
                 /\ \A i \in 1..Len(items) :
                        Cardinality({k \in 1..Len(emitted) : emitted[k] = i}) = 1)
    /\ (stream_done ~> (main_pc = "returned"))

\* The run has returned with the one item read before the error printed
\* and a line that would have been an item left unread after it.
C20_Witness ==
    /\ main_pc = "returned"
    /\ Len(items) = 1 /\ Len(stdout) = 1
    /\ stdin # <<>>
    /\ QueryItemsOf(stdin) # <<>>

====
